---- MODULE Spec2Model ----
(***************************************************************************)
(* Detection-job pipeline, match resolution and match confirmation of the  *)
(* AI provenance tool (backend/app/api/processing.py, api/results.py,      *)
(* api/artworks.py, services/vector_service.py).                           *)
(*                                                                         *)
(* Scheduling: every handler is an `async def` that never awaits, so a     *)
(* handler runs to completion on the single event loop.  The background    *)
(* task awaits once (asyncio.sleep), so it runs as two uninterrupted       *)
(* stretches.  The second stretch is split into three steps so that every  *)
(* write to the job tracker is a state of its own; while a task is inside  *)
(* that stretch it holds the loop and nothing else is scheduled.           *)
(*                                                                         *)
(* An Optional[T] value is a sequence of length 0 (None) or 1.             *)
(* Scores are in hundredths.  Timestamps are the name of the program point *)
(* that read the clock.                                                    *)
(***************************************************************************)
EXTENDS Integers, Sequences, FiniteSets, TLC

\* ------------------------------------------------------------ bounds
MaxArt == 1         \* artworks created through the API in Spec
MaxPhotos == 2      \* photos stored by submissions in Spec
ConfirmArt == 2     \* artworks created through the API in SpecConfirm
MaxConfirms == 2    \* confirm-match calls in SpecConfirm
MaxCatalog == 11    \* largest catalog in SpecPipe
MatchCatalog == 2   \* artworks in the catalog of SpecMatch
MaxTopKCatalog == 12    \* artworks in the catalog of SpecTopK
MaxIndexed == 12    \* vectors the index holds in SpecTopK
MaxFallbackCatalog == 8 \* artworks in the catalog of SpecFallback
MaxHits == 2        \* matches the index returns to one query in SpecMatch
MaxBoxCatalog == 2  \* largest catalog in SpecBox
MaxHashSeeds == 2   \* string-hash secrets a process may start with in SpecEmbed
MaxEmbedIds == 3    \* artwork ids embedded directly in SpecEmbed

\* ------------------------------------------------------------ program constants
CandidateLimit == 10    \* db.query(Artwork).limit(10)
MaxDetections == 3      \* random.randint(1, min(3, len(artworks)))
XMin == 50              \* x = random.randint(50, 400)
XMax == 400
YMin == 50              \* y = random.randint(50, 300)
YMax == 300
WidthMin == 100         \* width = random.randint(100, 300)
WidthMax == 300
HeightMin == 100        \* height = random.randint(100, 400)
HeightMax == 400
ConfidenceMin == 75     \* confidence = random.uniform(0.75, 0.98)
ConfidenceMax == 98

PENDING == "pending"
PROCESSING == "processing"
COMPLETED == "completed"
FAILED == "failed"
ProcessingStatus == {PENDING, PROCESSING, COMPLETED, FAILED}

None == <<>>
Some(x) == <<x>>

NoCatalogError == "No artworks in catalog to match against"
DbError == "database error"

VARIABLES
    artworks,       \* artworks table: id -> [year, format_type, has_embedding]
    nextArtId,      \* next value of the artworks id sequence
    photos,         \* installation_photos table: row id -> [exhibition_id, processed_status]
    detections,     \* detections table: row id -> [installation_photo_id, artwork_id]
    provenance,     \* provenance_records table: row id -> [artwork_id, exhibition_id, detection_id]
    job_status,     \* the in-memory tracker: job id -> job record
    tasks,          \* background task of each job: [pc, detected_artworks]
    available,      \* vector_service.index is not None
    numConfirms,    \* confirm-match calls handled so far
    embedder,       \* the process's string-hash secret and numpy's global generator
    exhibitions,    \* exhibitions table: id -> [start_date, end_date], dates by their year
    resp            \* what the last handler (or vector operation) returned

vars == <<artworks, nextArtId, photos, detections, provenance, job_status, tasks,
          available, numConfirms, embedder, exhibitions, resp>>

LastFamousSeed == 5     \* "the_thinker": generate_mock_embedding(5, 512)

\* The process once the application is imported: str hashes are keyed by a
\* secret drawn when the interpreter starts (run_dev.py does not set
\* PYTHONHASHSEED), and numpy's global generator was last seeded for the last
\* entry of FAMOUS_ARTWORK_EMBEDDINGS.
FreshProcess(hash_seed) == [hash_seed |-> hash_seed, rng |-> Some(LastFamousSeed)]

\* The exhibitions table is filled outside the API (utils/seed_data.py) and no
\* handler writes it.  Exhibition 3 is the id requests use for a missing one.
Exhibitions == {1, 2}

\* seed_data.py:99-118: the seeded exhibitions open and close in 2023
SeedExhibitions ==
    [e \in Exhibitions |-> [start_date |-> Some(2023), end_date |-> Some(2023)]]
catalog == DOMAIN artworks

Min(a, b) == IF a <= b THEN a ELSE b
Abs(x) == IF x < 0 THEN 0 - x ELSE x

\* Attributes of an artwork uploaded without year, format or image.
PlainArtwork == [year |-> None, format_type |-> None, has_embedding |-> FALSE]

\* ------------------------------------------------------------ job tracker
\* Faulty variant of NewJob: the submit handler runs the task's first step itself.
NewJob_started(photo_id) ==
    [installation_photo_id |-> photo_id,
     status |-> PROCESSING,
     progress_percentage |-> 10,
     message |-> <<"Downloading and analyzing image...">>,
     error_details |-> None,
     started_at |-> "submit",
     completed_at |-> None]

\* processing.py:155-163
NewJob(photo_id) ==
    [installation_photo_id |-> photo_id,
     status |-> PENDING,
     progress_percentage |-> 0,
     message |-> <<"Photo queued for processing">>,
     error_details |-> None,
     started_at |-> "submit",
     completed_at |-> None]

\* Faulty variant of StartedJob: the status write of line 40 is missing.
StartedJob_noStatus(job) ==
    [job EXCEPT !.progress_percentage = 10,
                !.message = <<"Downloading and analyzing image...">>]

\* processing.py:40-42
StartedJob(job) ==
    [job EXCEPT !.status = PROCESSING,
                !.progress_percentage = 10,
                !.message = <<"Downloading and analyzing image...">>]

\* processing.py:53-54
DetectingJob(job) ==
    [job EXCEPT !.progress_percentage = 50,
                !.message = <<"Detecting artworks in image...">>]

\* processing.py:66-67
PersistingJob(job) ==
    [job EXCEPT !.progress_percentage = 80,
                !.message = <<"Creating detection records...">>]

\* Faulty variant of CompletedJob: the success path records no completion time.
CompletedJob_noTimestamp(job, num_detections) ==
    [job EXCEPT !.status = COMPLETED,
                !.progress_percentage = 100,
                !.message = <<"Successfully detected", num_detections, "artworks">>]

\* processing.py:103-106
CompletedJob(job, num_detections) ==
    [job EXCEPT !.status = COMPLETED,
                !.progress_percentage = 100,
                !.message = <<"Successfully detected", num_detections, "artworks">>,
                !.completed_at = Some("completed")]

\* Faulty variant of FailedJob: the failure path resets the progress.
FailedJob_resetsProgress(job, e) ==
    [job EXCEPT !.status = FAILED,
                !.progress_percentage = 0,
                !.error_details = Some(e),
                !.message = <<"Processing failed">>,
                !.completed_at = Some("failed")]

\* Faulty variant of FailedJob: the failure path records the error and leaves
\* the status as it was.
FailedJob_keepsStatus(job, e) ==
    [job EXCEPT !.error_details = Some(e),
                !.message = <<"Processing failed">>]

\* processing.py:110-113
FailedJob(job, e) ==
    [job EXCEPT !.status = FAILED,
                !.error_details = Some(e),
                !.message = <<"Processing failed">>,
                !.completed_at = Some("failed")]

\* ------------------------------------------------------------ event loop
\* A task between its wake-up and its end runs without awaiting.
Running(j) == tasks[j].pc \in {"opened", "sampled"}
LoopFree == \A j \in DOMAIN tasks : ~Running(j)

\* ------------------------------------------------------------ relational helpers
\* Faulty variant of PhotoFailed: the failure handler writes the success status.
PhotoFailed_completed(ps, photo_id) ==
    IF photo_id \in DOMAIN ps
    THEN [ps EXCEPT ![photo_id].processed_status = COMPLETED]
    ELSE ps

\* processing.py:117-121
PhotoFailed(ps, photo_id) ==
    IF photo_id \in DOMAIN ps
    THEN [ps EXCEPT ![photo_id].processed_status = FAILED]
    ELSE ps

\* Faulty variant of PhotoCompleted: the run marks the photo as being processed.
PhotoCompleted_processing(ps, photo_id) ==
    IF photo_id \in DOMAIN ps
    THEN [ps EXCEPT ![photo_id].processed_status = PROCESSING]
    ELSE ps

\* processing.py:93-98
PhotoCompleted(ps, photo_id) ==
    IF photo_id \in DOMAIN ps
    THEN [ps EXCEPT ![photo_id].processed_status = COMPLETED]
    ELSE ps

\* Faulty variant of RandInt: the upper end is passed by one.
RandInt_pastEnd(a, b) == a..(b + 1)

\* random.randint(a, b): an integer of a..b, both ends included
RandInt(a, b) == a..b

\* random.uniform(a, b), in hundredths
Uniform(a, b) == a..b

\* The least and the greatest element of a range.
Ends(S) == {v \in S : (\A w \in S : v <= w) \/ (\A w \in S : w <= v)}

\* processing.py:72-78: what one pass of the loop can draw, each draw taken
\* at an end of its range
EndDraws ==
    [confidence_score : Ends(Uniform(ConfidenceMin, ConfidenceMax)),
     bounding_box : [x : Ends(RandInt(XMin, XMax)),
                     y : Ends(RandInt(YMin, YMax)),
                     width : Ends(RandInt(WidthMin, WidthMax)),
                     height : Ends(RandInt(HeightMin, HeightMax))]]

\* The draw with every value at the low end of its range.
LowDraw ==
    [confidence_score |-> ConfidenceMin,
     bounding_box |-> [x |-> XMin, y |-> YMin, width |-> WidthMin,
                       height |-> HeightMin]]

\* processing.py:70-90: one Detection per sampled artwork, in sample order,
\* with the confidence score and the bounding box drawn for it
NewDetections(photo_id, detected_artworks, draws) ==
    [i \in 1..Len(detected_artworks) |->
        [installation_photo_id |-> photo_id,
         artwork_id |-> detected_artworks[i],
         confidence_score |-> draws[i].confidence_score,
         bounding_box |-> draws[i].bounding_box]]

\* Faulty variant of CommittedDetections: every added row is stored at once.
CommittedDetections_eachAdd(commit_ok, dets, added) == dets \o added

\* processing.py:90, 100: the rows added to the session are stored by the one
\* commit, all of them or none
CommittedDetections(commit_ok, dets, added) ==
    IF commit_ok THEN dets \o added ELSE dets

\* processing.py:57: up to CandidateLimit rows, in no particular order
CandidateSets(cat) ==
    {S \in SUBSET cat : Cardinality(S) = Min(CandidateLimit, Cardinality(cat))}

\* processing.py:63: random.randint(1, min(3, len(artworks)))
DetectionCounts(n) == 1..Min(MaxDetections, n)

\* Faulty variant of Samples: the draw is made with replacement.
Samples_withReplacement(S, k) == [1..k -> S]

\* processing.py:64: random.sample(artworks, num_detections)
Samples(S, k) ==
    {s \in [1..k -> S] : \A i, i2 \in 1..k : i # i2 => s[i] # s[i2]}

\* ------------------------------------------------------------ Init
Init ==
    /\ artworks = <<>>
    /\ nextArtId = 1
    /\ photos = <<>>
    /\ detections = <<>>
    /\ provenance = <<>>
    /\ job_status = <<>>
    /\ tasks = <<>>
    /\ available = FALSE
    /\ numConfirms = 0
    /\ embedder = FreshProcess(0)
    /\ exhibitions = SeedExhibitions
    /\ resp = [kind |-> "none"]

\* ------------------------------------------------------------ catalog
\* artworks.py:20-62 create_artwork
CreateArtwork(attrs, limit) ==
    /\ LoopFree
    /\ nextArtId <= limit
    /\ artworks' = [a \in catalog \cup {nextArtId} |->
                        IF a = nextArtId THEN attrs ELSE artworks[a]]
    /\ nextArtId' = nextArtId + 1
    /\ resp' = [kind |-> "create_artwork", status |-> 200, id |-> nextArtId]
    /\ UNCHANGED <<embedder, exhibitions, photos, detections, provenance, job_status, tasks, available,
                   numConfirms>>

\* A row of detections or provenance_records references the artwork
\* (foreign keys of the initial migration, both NOT NULL).
Referenced(a) ==
    \/ \E d \in DOMAIN detections : detections[d].artwork_id = a
    \/ \E r \in DOMAIN provenance : provenance[r].artwork_id = a

\* artworks.py:165-181 delete_artwork
DeleteArtwork(a) ==
    /\ LoopFree
    /\ a \in 1..(nextArtId - 1)
    /\ \/ /\ a \notin catalog
          /\ resp' = [kind |-> "delete_artwork", status |-> 404, id |-> a]
          /\ UNCHANGED artworks
       \/ /\ a \in catalog
          /\ Referenced(a)
          /\ resp' = [kind |-> "delete_artwork", status |-> 500, id |-> a]
          /\ UNCHANGED artworks
       \/ /\ a \in catalog
          /\ ~Referenced(a)
          /\ artworks' = [b \in catalog \ {a} |-> artworks[b]]
          /\ resp' = [kind |-> "delete_artwork", status |-> 200, id |-> a]
    /\ UNCHANGED <<embedder, exhibitions, nextArtId, photos, detections, provenance, job_status, tasks,
                   available, numConfirms>>

\* ------------------------------------------------------------ submit / poll
\* processing.py:129-178 process_installation_photo
\* db_step is the database step that raises, if any: the commit of the photo
\* (nothing is stored) or the refresh after it (the photo is stored, and the
\* handler ends before it creates the job).
SubmitPhoto(exhibition_id, limit, db_step) ==
    /\ LoopFree
    /\ Len(photos) < limit
    /\ \/ /\ exhibition_id \notin Exhibitions
          /\ db_step = "none"
          /\ resp' = [kind |-> "submit", status |-> 404]
          /\ UNCHANGED <<photos, job_status, tasks>>
       \/ /\ exhibition_id \in Exhibitions
          /\ db_step = "commit"
          /\ resp' = [kind |-> "submit", status |-> 500]
          /\ UNCHANGED <<photos, job_status, tasks>>
       \/ /\ exhibition_id \in Exhibitions
          /\ db_step = "refresh"
          /\ photos' = Append(photos, [exhibition_id |-> exhibition_id,
                                       processed_status |-> PENDING])
          /\ resp' = [kind |-> "submit", status |-> 500]
          /\ UNCHANGED <<job_status, tasks>>
       \/ /\ exhibition_id \in Exhibitions
          /\ db_step = "none"
          /\ LET photo_id == Len(photos) + 1
                 job_id == Len(job_status) + 1
             IN /\ photos' = Append(photos, [exhibition_id |-> exhibition_id,
                                             processed_status |-> PENDING])
                /\ job_status' = Append(job_status, NewJob(photo_id))
                /\ tasks' = Append(tasks, [pc |-> "queued", detected_artworks |-> <<>>])
                /\ resp' = [kind |-> "submit", status |-> 200, job_id |-> job_id,
                            installation_photo_id |-> photo_id,
                            job_state |-> PENDING,
                            message |-> "Photo submitted for processing"]
    /\ UNCHANGED <<embedder, exhibitions, artworks, nextArtId, detections, provenance, available, numConfirms>>

\* Faulty variant of StatusResponse: a failed job is answered as a missing one.
StatusResponse_failedHidden(tracker, job_id) ==
    IF job_id \notin DOMAIN tracker \/ tracker[job_id].status = FAILED
    THEN [kind |-> "status", status |-> 404, job_id |-> job_id]
    ELSE [kind |-> "status", status |-> 200, job_id |-> job_id, job |-> tracker[job_id]]

\* processing.py:184-198: 404 for an unknown id, else the job's record
StatusResponse(tracker, job_id) ==
    IF job_id \notin DOMAIN tracker
    THEN [kind |-> "status", status |-> 404, job_id |-> job_id]
    ELSE [kind |-> "status", status |-> 200, job_id |-> job_id, job |-> tracker[job_id]]

\* processing.py:180-198 get_processing_status
GetStatus(job_id) ==
    /\ LoopFree
    /\ resp' = StatusResponse(job_status, job_id)
    /\ UNCHANGED <<embedder, exhibitions, artworks, nextArtId, photos, detections, provenance, job_status,
                   tasks, available, numConfirms>>

\* ------------------------------------------------------------ pipeline
\* processing.py:108-127: the except block and the finally block.
\* db_bound is FALSE when SessionLocal() itself raised: the name db is then
\* unbound, the nested cleanup raises NameError (swallowed) and db.close()
\* raises out of the task.  cleanup_ok is whether the best-effort photo
\* update committed.
FailTask(j, e, db_bound, cleanup_ok) ==
    /\ job_status' = [job_status EXCEPT ![j] = FailedJob(job_status[j], e)]
    /\ photos' = IF db_bound /\ cleanup_ok
                 THEN PhotoFailed(photos, job_status[j].installation_photo_id)
                 ELSE photos
    /\ tasks' = [tasks EXCEPT ![j].pc = IF db_bound THEN "done" ELSE "raised"]

\* Faulty variant of PipelineStart: the first stretch writes the tracker entry of
\* every job.
PipelineStart_allJobs(j) ==
    /\ LoopFree
    /\ j \in DOMAIN tasks
    /\ tasks[j].pc = "queued"
    /\ job_status' = [k \in DOMAIN job_status |-> StartedJob(job_status[k])]
    /\ tasks' = [tasks EXCEPT ![j].pc = "sleeping"]
    /\ UNCHANGED <<embedder, exhibitions, artworks, nextArtId, photos, detections, provenance, available,
                   numConfirms, resp>>

\* processing.py:39-45: first stretch, up to the await
PipelineStart(j) ==
    /\ LoopFree
    /\ j \in DOMAIN tasks
    /\ tasks[j].pc = "queued"
    /\ job_status' = [job_status EXCEPT ![j] = StartedJob(job_status[j])]
    /\ tasks' = [tasks EXCEPT ![j].pc = "sleeping"]
    /\ UNCHANGED <<embedder, exhibitions, artworks, nextArtId, photos, detections, provenance, available,
                   numConfirms, resp>>

\* processing.py:47-54: wake up, open the session, progress 50.
\* session_ok is whether SessionLocal() returned a session.
PipelineOpen(j, session_ok) ==
    /\ LoopFree
    /\ j \in DOMAIN tasks
    /\ tasks[j].pc = "sleeping"
    /\ \/ /\ session_ok
          /\ job_status' = [job_status EXCEPT ![j] = DetectingJob(job_status[j])]
          /\ tasks' = [tasks EXCEPT ![j].pc = "opened"]
          /\ UNCHANGED photos
       \/ /\ ~session_ok
          /\ FailTask(j, DbError, FALSE, FALSE)
    /\ UNCHANGED <<embedder, exhibitions, artworks, nextArtId, detections, provenance, available,
                   numConfirms, resp>>

\* processing.py:56-67: load candidates, sample, progress 80.
\* query_ok is whether the catalog query answered, cleanup_ok whether the
\* photo update of the except block committed.
PipelineDetect(j, query_ok, cleanup_ok) ==
    /\ j \in DOMAIN tasks
    /\ tasks[j].pc = "opened"
    /\ \/ /\ query_ok /\ cleanup_ok
          /\ catalog # {}
          /\ \E S \in CandidateSets(catalog) :
             \E k \in DetectionCounts(Cardinality(S)) :
             \E s \in Samples(S, k) :
                /\ job_status' = [job_status EXCEPT ![j] = PersistingJob(job_status[j])]
                /\ tasks' = [tasks EXCEPT ![j] = [pc |-> "sampled", detected_artworks |-> s]]
          /\ UNCHANGED photos
       \/ /\ query_ok
          /\ catalog = {}
          /\ FailTask(j, NoCatalogError, TRUE, cleanup_ok)
       \/ /\ ~query_ok
          /\ FailTask(j, DbError, TRUE, cleanup_ok)
    /\ UNCHANGED <<embedder, exhibitions, artworks, nextArtId, detections, provenance, available,
                   numConfirms, resp>>

\* processing.py:69-106: add the detections, mark the photo, commit once,
\* then complete the job.  commit_ok is whether the statements of lines 93-100
\* (photo lookup, flush, commit) went through; if not, the transaction that
\* holds the run's rows is aborted and none of them is stored.  The except
\* block never calls db.rollback(), so the session refuses its query and its
\* commit as well: the cleanup raises, is swallowed, and the photo keeps its
\* status.  draw_set is what one pass of the loop may draw.
PipelinePersist(j, commit_ok, draw_set) ==
    /\ j \in DOMAIN tasks
    /\ tasks[j].pc = "sampled"
    /\ LET photo_id == job_status[j].installation_photo_id
           detected == tasks[j].detected_artworks
       IN \E draws \in [1..Len(detected) -> draw_set] :
             /\ detections' = CommittedDetections(commit_ok, detections,
                                  NewDetections(photo_id, detected, draws))
             /\ \/ /\ commit_ok
                   /\ photos' = PhotoCompleted(photos, photo_id)
                   /\ job_status' = [job_status EXCEPT
                                        ![j] = CompletedJob(job_status[j], Len(detected))]
                   /\ tasks' = [tasks EXCEPT ![j].pc = "done"]
                \/ /\ ~commit_ok
                   /\ FailTask(j, DbError, TRUE, FALSE)
    /\ UNCHANGED <<embedder, exhibitions, artworks, nextArtId, provenance, available, numConfirms, resp>>

\* ------------------------------------------------------------ confirmation
\* results.py:145-147: the provenance rows of a detection
ExistingRecords(prov, detection_id) ==
    {r \in DOMAIN prov : prov[r].detection_id = detection_id}

\* .first() of that query
FirstRecord(prov, detection_id) ==
    CHOOSE r \in ExistingRecords(prov, detection_id) :
        \A r2 \in ExistingRecords(prov, detection_id) : r <= r2

\* Faulty variant of UpsertProvenance: every confirmation adds a record.
UpsertProvenance_append(prov, detection_id, artwork_id, exhibition_id) ==
    Append(prov, [artwork_id |-> artwork_id,
                  exhibition_id |-> exhibition_id,
                  detection_id |-> detection_id])

\* results.py:149-159: update the existing record, else add a new one
UpsertProvenance(prov, detection_id, artwork_id, exhibition_id) ==
    IF ExistingRecords(prov, detection_id) # {}
    THEN [prov EXCEPT ![FirstRecord(prov, detection_id)].artwork_id = artwork_id]
    ELSE Append(prov, [artwork_id |-> artwork_id,
                       exhibition_id |-> exhibition_id,
                       detection_id |-> detection_id])

\* results.py:167-173: id of the record the call wrote
WrittenRecordId(prov, detection_id) ==
    IF ExistingRecords(prov, detection_id) # {}
    THEN FirstRecord(prov, detection_id)
    ELSE Len(prov) + 1

\* Faulty variant of ReassignDetection: the detection keeps its artwork.
ReassignDetection_kept(dets, detection_id, artwork_id) == dets

\* results.py:162-164: point the detection to the confirmed artwork if different
ReassignDetection(dets, detection_id, artwork_id) ==
    IF dets[detection_id].artwork_id # artwork_id
    THEN [dets EXCEPT ![detection_id].artwork_id = artwork_id]
    ELSE dets

\* Faulty variant of CommitUnit: the provenance write is committed on its own, before
\* the commit that can fail.
CommitUnit_partial(ok, committed, staged) ==
    IF ok THEN staged ELSE [committed EXCEPT !.provenance = staged.provenance]

\* results.py:166 db.commit(): the session's changes become the tables' rows
\* together, or the transaction is lost as a whole
CommitUnit(ok, committed, staged) == IF ok THEN staged ELSE committed

\* Faulty variant of ConfirmResponse: the original id is read after the reassignment.
ConfirmResponse_readAfter(detection_id, original_artwork_id, confirmed_artwork_id, record_id) ==
    [kind |-> "confirm", status |-> 200,
     detection_id |-> detection_id,
     original_artwork_id |-> confirmed_artwork_id,
     confirmed_artwork_id |-> confirmed_artwork_id,
     provenance_record_id |-> record_id,
     message |-> "Match confirmed and provenance record created"]

\* results.py:169-175
ConfirmResponse(detection_id, original_artwork_id, confirmed_artwork_id, record_id) ==
    [kind |-> "confirm", status |-> 200,
     detection_id |-> detection_id,
     original_artwork_id |-> original_artwork_id,
     confirmed_artwork_id |-> confirmed_artwork_id,
     provenance_record_id |-> record_id,
     message |-> "Match confirmed and provenance record created"]

\* results.py:130, 138 (HTTPException) and an exception of a database step
ConfirmError(code, detail, detection_id, confirmed_artwork_id) ==
    [kind |-> "confirm", status |-> code, detail |-> detail,
     detection_id |-> detection_id,
     confirmed_artwork_id |-> confirmed_artwork_id]

\* results.py:125-130: the detection row of the path parameter, if any
DetectionFound(dets, detection_id) == detection_id \in DOMAIN dets

\* Faulty variant of ConfirmedArtworkFound: the look-up result is not checked.
ConfirmedArtworkFound_unchecked(cat, confirmed_artwork_id) == TRUE

\* results.py:133-138: the confirmed artwork is a row of the catalog
ConfirmedArtworkFound(cat, confirmed_artwork_id) == confirmed_artwork_id \in cat

\* results.py:116-175 confirm_match
\* db_step is the database step that raises, if any: the commit (the unit of
\* work is lost) or the refresh after it (the unit of work is committed).
ConfirmMatch(detection_id, confirmed_artwork_id, db_step) ==
    /\ LoopFree
    /\ numConfirms < MaxConfirms
    /\ numConfirms' = numConfirms + 1
    /\ IF ~DetectionFound(detections, detection_id)
       THEN /\ db_step = "none"
            /\ resp' = ConfirmError(404, "Detection not found", detection_id,
                                    confirmed_artwork_id)
            /\ UNCHANGED <<provenance, detections>>
       ELSE IF ~ConfirmedArtworkFound(catalog, confirmed_artwork_id)
       THEN /\ db_step = "none"
            /\ resp' = ConfirmError(404, "Confirmed artwork not found", detection_id,
                                    confirmed_artwork_id)
            /\ UNCHANGED <<provenance, detections>>
       ELSE LET detection == detections[detection_id]
                exhibition_id == photos[detection.installation_photo_id].exhibition_id
                original_artwork_id == detection.artwork_id
                staged == [provenance |-> UpsertProvenance(provenance, detection_id,
                                              confirmed_artwork_id, exhibition_id),
                           detections |-> ReassignDetection(detections, detection_id,
                                              confirmed_artwork_id)]
                after == CommitUnit(db_step # "commit",
                                    [provenance |-> provenance, detections |-> detections],
                                    staged)
            IN /\ provenance' = after.provenance
               /\ detections' = after.detections
               /\ resp' = IF db_step = "none"
                          THEN ConfirmResponse(detection_id, original_artwork_id,
                                   confirmed_artwork_id,
                                   WrittenRecordId(provenance, detection_id))
                          ELSE ConfirmError(500, db_step, detection_id,
                                            confirmed_artwork_id)
    /\ UNCHANGED <<embedder, exhibitions, artworks, nextArtId, photos, job_status, tasks, available>>

\* ------------------------------------------------------------ provenance history
\* Faulty variant of RecordsOf: the filter on the artwork is missing.
RecordsOf_unfiltered(prov, artwork_id) == [i \in 1..Len(prov) |-> Len(prov) + 1 - i]

\* results.py:187-193: the ids of the artwork's provenance records, newest
\* first.  Rows are numbered in the order they were inserted, which is the
\* order of created_at; every record has its exhibition and its detection
\* (foreign keys), so the joins drop none.
RecordsOf(prov, artwork_id) ==
    LET newest_first == [i \in 1..Len(prov) |-> Len(prov) + 1 - i]
        Keep(r) == prov[r].artwork_id = artwork_id
    IN SelectSeq(newest_first, Keep)

\* Faulty variant of ExhibitionYears: only the start dates are collected.
ExhibitionYears_startOnly(exhibition) ==
    IF exhibition.start_date # None THEN {exhibition.start_date[1]} ELSE {}

\* results.py:207-211: the years of an exhibition's dates that are set
ExhibitionYears(exhibition) ==
    (IF exhibition.start_date # None THEN {exhibition.start_date[1]} ELSE {})
    \cup (IF exhibition.end_date # None THEN {exhibition.end_date[1]} ELSE {})

MinOf(S) == CHOOSE x \in S : \A y \in S : x <= y
MaxOf(S) == CHOOSE x \in S : \A y \in S : x >= y

\* results.py:223-231: None, str(min_year) or f"{min_year}-{max_year}", the
\* string written as the sequence of its parts
DateRange(years) ==
    IF years = {} THEN None
    ELSE IF MinOf(years) = MaxOf(years) THEN Some(<<MinOf(years)>>)
    ELSE Some(<<MinOf(years), "-", MaxOf(years)>>)

\* results.py:213-221.  detection_id is not a field of the entry: it records
\* which detection the entry's confidence was read from.
ProvenanceEntry(record) ==
    [exhibition_id |-> record.exhibition_id,
     start_date |-> exhibitions[record.exhibition_id].start_date,
     end_date |-> exhibitions[record.exhibition_id].end_date,
     detection_confidence |-> detections[record.detection_id].confidence_score,
     detection_id |-> record.detection_id]

\* results.py:177-240 get_artwork_provenance
GetProvenance(artwork_id) ==
    /\ LoopFree
    /\ IF artwork_id \notin catalog
       THEN resp' = [kind |-> "provenance", status |-> 404, artwork_id |-> artwork_id]
       ELSE LET records == RecordsOf(provenance, artwork_id)
                years == UNION {ExhibitionYears(exhibitions[provenance[records[i]].exhibition_id]) :
                                   i \in 1..Len(records)}
                entries == [i \in 1..Len(records) |-> ProvenanceEntry(provenance[records[i]])]
            IN resp' = [kind |-> "provenance", status |-> 200,
                        artwork_id |-> artwork_id,
                        provenance_entries |-> entries,
                        total_exhibitions |-> Len(entries),
                        date_range |-> DateRange(years)]
    /\ UNCHANGED <<embedder, exhibitions, artworks, nextArtId, photos, detections,
                   provenance, job_status, tasks, available, numConfirms>>

\* ------------------------------------------------------------ vector service
\* What the external index client does when it is called: it answers or it
\* raises.  matches is the answer to a query (match.id is a string),
\* has_vector whether a fetch finds the id.
Digits == <<"0", "1", "2", "3", "4", "5", "6", "7", "8", "9">>

\* str(artwork_id), vector_service.py:123, for ids of one or two digits
IdStr(n) ==
    IF n < 10 THEN Digits[n + 1] ELSE Digits[(n \div 10) + 1] \o Digits[(n % 10) + 1]

\* Ids whose decimal form the model can write
StrIds == 0..99

\* int(artwork_id_str) succeeds, results.py:38
IsNumeric(str) == \E n \in StrIds : IdStr(n) = str

\* int(artwork_id_str), results.py:38
ParseInt(str) == CHOOSE n \in StrIds : IdStr(n) = str

ScoreThreshold == 50    \* score_threshold=0.5 of get_similarity_matches
TopK == 10              \* top_k=10 of get_similarity_matches
DefaultThreshold == 70  \* score_threshold default of search_similar_artworks

\* vector_service.py:24-93: __init__ sets index to None and _initialize_pinecone
\* binds it only if a client is installed, the API key is set and connecting
\* (listing, creating and opening the index) does not raise.
InitializePinecone(client_installed, api_key_set, connect) ==
    client_installed /\ api_key_set /\ connect = "ok"

InitConfigs ==
    [client_installed : BOOLEAN, api_key_set : BOOLEAN, connect : {"ok", "raise"}]

\* Faulty variant of IndexAfter: an unavailable service connects again when it is
\* used and the client answers.
IndexAfter_reconnect(op, index_present, client) ==
    index_present \/ client.outcome = "ok"

\* vector_service.py:99-254: no method assigns self.index, whatever the client does
IndexAfter(op, index_present, client) == index_present

\* vector_service.py:95-97
IsAvailable(index_present) == index_present

\* vector_service.py:99-135
UpsertEmbedding(index_present, client) ==
    IF ~IsAvailable(index_present)
    THEN [ret |-> FALSE, raised |-> FALSE, client_called |-> FALSE]
    ELSE IF client.outcome = "raise"
    THEN [ret |-> FALSE, raised |-> FALSE, client_called |-> TRUE]
    ELSE [ret |-> TRUE, raised |-> FALSE, client_called |-> TRUE]

\* Faulty variant of IndexQuery: the index answers with every vector it holds.
IndexQuery_all(stored, top_k) == stored

\* vector_service.py:166-171: self.index.query(vector, top_k, ...).  stored is
\* what the index holds, nearest to the query vector first; the index answers
\* with the top_k nearest.
IndexQuery(stored, top_k) == SubSeq(stored, 1, Min(top_k, Len(stored)))

\* vector_service.py:173-181
AboveThreshold(matches, score_threshold) ==
    LET Keep(m) == m.score >= score_threshold
    IN SelectSeq(matches, Keep)

\* vector_service.py:137-188
SearchSimilar(index_present, client, score_threshold) ==
    IF ~IsAvailable(index_present)
    THEN [ret |-> <<>>, raised |-> FALSE, client_called |-> FALSE]
    ELSE IF client.outcome = "raise"
    THEN [ret |-> <<>>, raised |-> FALSE, client_called |-> TRUE]
    ELSE [ret |-> AboveThreshold(client.matches, score_threshold),
          raised |-> FALSE, client_called |-> TRUE]

\* vector_service.py:190-216
GetEmbedding(index_present, client) ==
    IF ~IsAvailable(index_present)
    THEN [ret |-> None, raised |-> FALSE, client_called |-> FALSE]
    ELSE IF client.outcome = "raise"
    THEN [ret |-> None, raised |-> FALSE, client_called |-> TRUE]
    ELSE [ret |-> IF client.has_vector THEN Some("values") ELSE None,
          raised |-> FALSE, client_called |-> TRUE]

\* Faulty variant of DeleteEmbedding: the call to the client is not inside a try.
DeleteEmbedding_noTry(index_present, client) ==
    IF ~IsAvailable(index_present)
    THEN [ret |-> FALSE, raised |-> FALSE, client_called |-> FALSE]
    ELSE IF client.outcome = "raise"
    THEN [ret |-> FALSE, raised |-> TRUE, client_called |-> TRUE]
    ELSE [ret |-> TRUE, raised |-> FALSE, client_called |-> TRUE]

\* vector_service.py:218-238
DeleteEmbedding(index_present, client) ==
    IF ~IsAvailable(index_present)
    THEN [ret |-> FALSE, raised |-> FALSE, client_called |-> FALSE]
    ELSE IF client.outcome = "raise"
    THEN [ret |-> FALSE, raised |-> FALSE, client_called |-> TRUE]
    ELSE [ret |-> TRUE, raised |-> FALSE, client_called |-> TRUE]

VectorOps == {"upsert", "query", "fetch", "delete"}

VectorCall(op, index_present, client) ==
    CASE op = "upsert" -> UpsertEmbedding(index_present, client)
      [] op = "query" -> SearchSimilar(index_present, client, DefaultThreshold)
      [] op = "fetch" -> GetEmbedding(index_present, client)
      [] op = "delete" -> DeleteEmbedding(index_present, client)

\* One call of a vector service method by any of its callers.
VectorOp(op, client) ==
    /\ LoopFree
    /\ LET r == VectorCall(op, available, client)
       IN resp' = [kind |-> "vector", op |-> op, client |-> client.outcome,
                   ret |-> r.ret, raised |-> r.raised,
                   client_called |-> r.client_called]
    /\ available' = IndexAfter(op, available, client)
    /\ UNCHANGED <<embedder, exhibitions, artworks, nextArtId, photos, detections, provenance, job_status,
                   tasks, numConfirms>>

\* ------------------------------------------------------------ embedding provider
Dimension == 512        \* dimension: int = 512
HashModulus == 10000    \* abs(artwork_hash) % 10000

\* embedding_utils.py:20-30: seed numpy's global generator, draw, normalize.
\* The generator's stream is a function of its seed, so the vector is named by
\* the seed it was drawn under; rng is the generator after the call.
GenerateMockEmbedding(artwork_id) ==
    [rng |-> Some(artwork_id),
     vector |-> [seeded_by |-> artwork_id, dimension |-> Dimension]]

\* embedding_utils.py:96-102: titles with a precomputed vector, by the seed it
\* was drawn under
FamousSeeds == [title \in {"Starry Night"} |-> 1]

\* embedding_utils.py:104-112
GetArtworkEmbeddingByTitle(title) ==
    IF title \in DOMAIN FamousSeeds
    THEN Some(GenerateMockEmbedding(FamousSeeds[title]).vector)
    ELSE None

EmbedTitles == {"Starry Night", "Untitled", "Composition"}
EmbedYears == {None, Some(1889)}
EmbedFormats == {None, Some("painting")}

\* f"{artwork.title}{artwork.year}{artwork.format_type}" as a number
KeyCode(title, year, format_type) ==
    (CASE title = "Starry Night" -> 1 [] title = "Untitled" -> 2 [] OTHER -> 3) * 10000
    + (IF year = None THEN 0 ELSE year[1])
    + (IF format_type = None THEN 0 ELSE 5000)

\* hash(str): the value depends on the string and on the process's secret.
\* The arithmetic stands for the keyed hash; only that dependence matters.
StrHash(hash_seed, code) == code * 7919 - hash_seed * 104729

\* artworks.py:34-35, 140-141, 218-219
MetadataSeed(hash_seed, title, year, format_type) ==
    Abs(StrHash(hash_seed, KeyCode(title, year, format_type))) % HashModulus

\* One call generate_mock_embedding(artwork_id) (seed_data.py:65).
EmbedById(artwork_id) ==
    /\ LoopFree
    /\ LET g == GenerateMockEmbedding(artwork_id)
       IN /\ embedder' = [embedder EXCEPT !.rng = g.rng]
          /\ resp' = [kind |-> "embed", key |-> <<"id", artwork_id>>,
                      vector |-> g.vector]
    /\ UNCHANGED <<exhibitions, artworks, nextArtId, photos, detections, provenance,
                   job_status, tasks, available, numConfirms>>

\* The embedding step of create_artwork, update_artwork and bulk_embed_artworks
\* (artworks.py:31-35, 138-141, 216-219).
EmbedByMetadata(title, year, format_type) ==
    /\ LoopFree
    /\ LET known == GetArtworkEmbeddingByTitle(title)
           g == GenerateMockEmbedding(
                    MetadataSeed(embedder.hash_seed, title, year, format_type))
           key == <<"metadata", title, year, format_type>>
       IN IF known # None
          THEN /\ resp' = [kind |-> "embed", key |-> key, vector |-> known[1]]
               /\ UNCHANGED embedder
          ELSE /\ resp' = [kind |-> "embed", key |-> key, vector |-> g.vector]
               /\ embedder' = [embedder EXCEPT !.rng = g.rng]
    /\ UNCHANGED <<exhibitions, artworks, nextArtId, photos, detections, provenance,
                   job_status, tasks, available, numConfirms>>

\* The server process is started again (run_dev.py:86-95, with --reload on
\* every source change): the in-memory tracker is gone, the database and the
\* last response a client holds are not.
Restart(hash_seed) ==
    /\ embedder' = FreshProcess(hash_seed)
    /\ job_status' = <<>>
    /\ tasks' = <<>>
    /\ UNCHANGED <<exhibitions, artworks, nextArtId, photos, detections, provenance,
                   available, numConfirms, resp>>

\* ------------------------------------------------------------ match resolver
\* `if x:` on an Optional[int] / Optional[str] column
TruthyYear(y) == y # None /\ y[1] # 0
TruthyStr(str) == str # None /\ str[1] # ""

YearRange == 20         \* year_range = 20
FallbackLimit == 5      \* similar_db_artworks.limit(5)
BaseScore == 60         \* similarity_score = 0.6
FormatBonus == 20       \* += 0.2
NearYearBonus == 15     \* += 0.15
FarYearBonus == 10      \* += 0.1
NearYears == 5          \* year_diff <= 5
FarYears == 10          \* year_diff <= 10
ScoreCap == 95          \* min(similarity_score, 0.95)

\* results.py:47-54
VectorCandidate(artwork_id, score) ==
    [artwork_id |-> artwork_id, similarity_score |-> score, source |-> "vector"]

\* results.py:37-54: the loop over the matches, stopped by the first exception.
\* similar is what had been appended by then.
RECURSIVE VectorLoop(_, _, _, _)
VectorLoop(matches, i, own_id, similar) ==
    IF i > Len(matches)
    THEN [similar |-> similar, raised |-> FALSE]
    ELSE IF ~IsNumeric(matches[i].id)
    THEN [similar |-> similar, raised |-> TRUE]
    ELSE LET artwork_id == ParseInt(matches[i].id)
         IN IF artwork_id = own_id \/ artwork_id \notin catalog
            THEN VectorLoop(matches, i + 1, own_id, similar)
            ELSE VectorLoop(matches, i + 1, own_id,
                     Append(similar, VectorCandidate(artwork_id, matches[i].score)))

\* Faulty variant of FallbackQuery: the filter on the detection's own artwork is missing.
FallbackQuery_withOwn(own_id) ==
    LET own == artworks[own_id]
    IN {a \in catalog :
          /\ TruthyStr(own.format_type) => artworks[a].format_type = own.format_type
          /\ TruthyYear(own.year) =>
                /\ artworks[a].year # None
                /\ artworks[a].year[1] >= own.year[1] - YearRange
                /\ artworks[a].year[1] <= own.year[1] + YearRange}

\* results.py:63-81: the filtered catalog query
FallbackQuery(own_id) ==
    LET own == artworks[own_id]
    IN {a \in catalog :
          /\ a # own_id
          /\ TruthyStr(own.format_type) => artworks[a].format_type = own.format_type
          /\ TruthyYear(own.year) =>
                /\ artworks[a].year # None
                /\ artworks[a].year[1] >= own.year[1] - YearRange
                /\ artworks[a].year[1] <= own.year[1] + YearRange}

\* Faulty variant of HeuristicScore: the larger year bonus reaches to FarYears.
HeuristicScore_wideNear(art, own) ==
    LET format == IF art.format_type = own.format_type THEN FormatBonus ELSE 0
        year == IF TruthyYear(art.year) /\ TruthyYear(own.year)
                   /\ Abs(art.year[1] - own.year[1]) <= FarYears
                THEN NearYearBonus ELSE 0
    IN Min(BaseScore + format + year, ScoreCap)

\* results.py:86-96 and the cap of line 103
HeuristicScore(art, own) ==
    LET format == IF art.format_type = own.format_type THEN FormatBonus ELSE 0
        year == IF TruthyYear(art.year) /\ TruthyYear(own.year)
                THEN IF Abs(art.year[1] - own.year[1]) <= NearYears THEN NearYearBonus
                     ELSE IF Abs(art.year[1] - own.year[1]) <= FarYears THEN FarYearBonus
                     ELSE 0
                ELSE 0
    IN Min(BaseScore + format + year, ScoreCap)

\* results.py:98-105
HeuristicCandidate(artwork_id, own_id) ==
    [artwork_id |-> artwork_id,
     similarity_score |-> HeuristicScore(artworks[artwork_id], artworks[own_id]),
     source |-> "heuristic"]

\* The rows of a query in id order.
RECURSIVE RowsInOrder(_)
RowsInOrder(S) ==
    IF S = {} THEN <<>>
    ELSE LET a == CHOOSE x \in S : \A y \in S : x <= y
         IN <<a>> \o RowsInOrder(S \ {a})

\* Faulty variant of LimitedRows: the query has no limit.
LimitedRows_all(S, n) == {S}

\* results.py:84: .limit(5).all() keeps any FallbackLimit of the rows
LimitedRows(S, n) == {T \in SUBSET S : Cardinality(T) = Min(n, Cardinality(S))}

\* results.py:84-105
FallbackCandidates(rows, own_id) ==
    [i \in 1..Len(rows) |-> HeuristicCandidate(rows[i], own_id)]

\* results.py:107-114. client_called and vector_raised are not fields of the
\* response: they record whether the index client was called and whether the
\* except clause of line 56 ran.
MatchesResponse(detection_id, own_id, similar, client_called, vector_raised) ==
    [kind |-> "matches", status |-> 200,
     detection_id |-> detection_id,
     detected_artwork_id |-> own_id,
     similar_artworks |-> similar,
     match_count |-> Len(similar),
     client_called |-> client_called,
     vector_raised |-> vector_raised]

\* results.py:13-114 get_similarity_matches
GetMatches(detection_id, client) ==
    /\ LoopFree
    /\ IF detection_id \notin DOMAIN detections
       THEN resp' = [kind |-> "matches", status |-> 404, detection_id |-> detection_id]
       ELSE LET own_id == detections[detection_id].artwork_id
                use_vector == IsAvailable(available) /\ artworks[own_id].has_embedding
                found == SearchSimilar(available, client, ScoreThreshold)
                loop == IF use_vector
                        THEN VectorLoop(found.ret, 1, own_id, <<>>)
                        ELSE [similar |-> <<>>, raised |-> FALSE]
                called == use_vector /\ found.client_called
            IN IF loop.similar # <<>>
               THEN resp' = MatchesResponse(detection_id, own_id, loop.similar, called,
                                            loop.raised)
               ELSE \E T \in LimitedRows(FallbackQuery(own_id), FallbackLimit) :
                       resp' = MatchesResponse(detection_id, own_id,
                                   FallbackCandidates(RowsInOrder(T), own_id), called,
                                   loop.raised)
    /\ UNCHANGED <<embedder, exhibitions, artworks, nextArtId, photos, detections, provenance, job_status,
                   tasks, available, numConfirms>>

\* ------------------------------------------------------------ Spec
\* The database step of a handler that raises, if any.
DbSteps == {"none", "commit", "refresh"}

\* Jobs, their background tasks, status polls and catalog changes, with a
\* failure of any database step.
Next ==
    \/ CreateArtwork(PlainArtwork, MaxArt)
    \/ \E a \in 1..MaxArt : DeleteArtwork(a)
    \/ \E e \in {1, 3} : \E db_step \in DbSteps : SubmitPhoto(e, MaxPhotos, db_step)
    \/ \E j \in 1..(MaxPhotos + 1) : GetStatus(j)
    \/ \E j \in 1..MaxPhotos : PipelineStart(j)
    \/ \E j \in 1..MaxPhotos : \E ok \in BOOLEAN : PipelineOpen(j, ok)
    \/ \E j \in 1..MaxPhotos : \E ok, cleanup_ok \in BOOLEAN :
          PipelineDetect(j, ok, cleanup_ok)
    \/ \E j \in 1..MaxPhotos : \E ok \in BOOLEAN : PipelinePersist(j, ok, {LowDraw})

Spec == Init /\ [][Next]_vars

\* processing.py:24-127: the next stretch of job j's background task, whatever
\* its database steps do
TaskStep(j) ==
    \/ PipelineStart(j)
    \/ \E ok \in BOOLEAN : PipelineOpen(j, ok)
    \/ \E ok, cleanup_ok \in BOOLEAN : PipelineDetect(j, ok, cleanup_ok)
    \/ \E ok \in BOOLEAN : PipelinePersist(j, ok, {LowDraw})

\* processing.py:171: the task is handed to the event loop, which runs a task
\* that is ready (queued, or woken from its sleep) once the loop is free, and
\* runs a task that does not await to its end.
SpecLive == Init /\ [][Next]_vars /\ \A j \in 1..MaxPhotos : WF_vars(TaskStep(j))

\* ------------------------------------------------------------ SpecConfirm
\* The detections of one pipeline run whose database steps succeed, then
\* confirmed, with a failure of any database step of the confirmation.
NextConfirm ==
    \/ CreateArtwork(PlainArtwork, ConfirmArt)
    \/ \E a \in 1..ConfirmArt : DeleteArtwork(a)
    \/ \E e \in {1, 2} : SubmitPhoto(e, 1, "none")
    \/ PipelineStart(1)
    \/ PipelineOpen(1, TRUE)
    \/ PipelineDetect(1, TRUE, TRUE)
    \/ PipelinePersist(1, TRUE, {LowDraw})
    \/ \E d \in 1..(Len(detections) + 1) : \E a \in 1..nextArtId :
       \E db_step \in DbSteps : ConfirmMatch(d, a, db_step)

SpecConfirm == Init /\ [][NextConfirm]_vars

\* ------------------------------------------------------------ SpecPipe
\* One submission against a catalog of any size up to MaxCatalog, with a
\* failure of any database step of the run.
InitPipe ==
    /\ \E n \in 0..MaxCatalog : artworks = [a \in 1..n |-> PlainArtwork]
    /\ nextArtId = Len(artworks) + 1
    /\ photos = <<>>
    /\ detections = <<>>
    /\ provenance = <<>>
    /\ job_status = <<>>
    /\ tasks = <<>>
    /\ available = FALSE
    /\ numConfirms = 0
    /\ embedder = FreshProcess(0)
    /\ exhibitions = SeedExhibitions
    /\ resp = [kind |-> "none"]

NextPipe ==
    \/ SubmitPhoto(1, 1, "none")
    \/ GetStatus(1)
    \/ PipelineStart(1)
    \/ \E ok \in BOOLEAN : PipelineOpen(1, ok)
    \/ \E ok, cleanup_ok \in BOOLEAN : PipelineDetect(1, ok, cleanup_ok)
    \/ \E ok \in BOOLEAN : PipelinePersist(1, ok, {LowDraw})

SpecPipe == InitPipe /\ [][NextPipe]_vars

\* ------------------------------------------------------------ SpecBox
\* One submission against a catalog of up to MaxBoxCatalog artworks, with every
\* draw of the detection loop at either end of its range.
InitBox ==
    /\ \E n \in 0..MaxBoxCatalog : artworks = [a \in 1..n |-> PlainArtwork]
    /\ nextArtId = Len(artworks) + 1
    /\ photos = <<>>
    /\ detections = <<>>
    /\ provenance = <<>>
    /\ job_status = <<>>
    /\ tasks = <<>>
    /\ available = FALSE
    /\ numConfirms = 0
    /\ embedder = FreshProcess(0)
    /\ exhibitions = SeedExhibitions
    /\ resp = [kind |-> "none"]

NextBox ==
    \/ SubmitPhoto(1, 1, "none")
    \/ GetStatus(1)
    \/ PipelineStart(1)
    \/ \E ok \in BOOLEAN : PipelineOpen(1, ok)
    \/ \E ok, cleanup_ok \in BOOLEAN : PipelineDetect(1, ok, cleanup_ok)
    \/ \E ok \in BOOLEAN : PipelinePersist(1, ok, EndDraws)

SpecBox == InitBox /\ [][NextBox]_vars

\* ------------------------------------------------------------ SpecEmbed
\* The embedding provider over restarts of the server process.
HashSeeds == 0..(MaxHashSeeds - 1)

InitEmbed ==
    /\ artworks = <<>>
    /\ nextArtId = 1
    /\ photos = <<>>
    /\ detections = <<>>
    /\ provenance = <<>>
    /\ job_status = <<>>
    /\ tasks = <<>>
    /\ available = FALSE
    /\ numConfirms = 0
    /\ \E h \in HashSeeds : embedder = FreshProcess(h)
    /\ exhibitions = SeedExhibitions
    /\ resp = [kind |-> "none"]

NextEmbed ==
    \/ \E artwork_id \in 1..MaxEmbedIds : EmbedById(artwork_id)
    \/ \E title \in EmbedTitles : \E year \in EmbedYears :
       \E format_type \in EmbedFormats : EmbedByMetadata(title, year, format_type)
    \/ \E h \in HashSeeds : Restart(h)

SpecEmbed == InitEmbed /\ [][NextEmbed]_vars

\* ------------------------------------------------------------ SpecTopK
FirstRequest == resp.kind = "none"

\* get-matches against an available index that holds more vectors than one
\* query asks for, over catalogs of up to MaxTopKCatalog artworks.  The index
\* holds vectors for the ids first..first+m-1 (with or without the detected
\* artwork 1, and with ids that are no longer in the catalog); the k nearest
\* score above the threshold of get-matches, the others below.
StoredVectors(first, m, k) ==
    [i \in 1..m |-> [id |-> IdStr(first + i - 1),
                     score |-> IF i <= k THEN ScoreThreshold + 40
                                ELSE ScoreThreshold - 10]]

TopKAnswers ==
    {[outcome |-> "ok", has_vector |-> FALSE,
      matches |-> IndexQuery(StoredVectors(first, m, k), TopK)] :
        first \in {1, 2}, m \in 0..MaxIndexed, k \in 0..MaxIndexed}

InitTopK ==
    /\ \E n \in 1..MaxTopKCatalog :
          artworks = [i \in 1..n |->
                        [year |-> None, format_type |-> None, has_embedding |-> i = 1]]
    /\ nextArtId = Len(artworks) + 1
    /\ photos = <<[exhibition_id |-> 1, processed_status |-> COMPLETED]>>
    /\ detections = NewDetections(1, <<1>>, <<LowDraw>>)
    /\ provenance = <<>>
    /\ job_status = <<>>
    /\ tasks = <<>>
    /\ available = InitializePinecone(TRUE, TRUE, "ok")
    /\ numConfirms = 0
    /\ embedder = FreshProcess(0)
    /\ exhibitions = SeedExhibitions
    /\ resp = [kind |-> "none"]

\* One request per store, as in SpecMatch: get-matches writes nothing.
ResolveTop(client) ==
    FirstRequest /\ GetMatches(1, client)

NextTopK == \E client \in TopKAnswers : ResolveTop(client)

SpecTopK == InitTopK /\ [][NextTopK]_vars

\* ------------------------------------------------------------ SpecMatch
\* The match resolver and the vector service: one request against a store
\* whose artworks draw their attributes from small sets, with one detection
\* (of artwork 1) in one photo.  No request of this specification writes the
\* store, so a second request would meet the same states.
Years == {None, Some(1889), Some(1920)}
Formats == {None, Some("painting"), Some("sculpture")}
ArtworkAttrs == [year : Years, format_type : Formats, has_embedding : BOOLEAN]

\* Ids the index may hold: the detected artwork, another artwork, an artwork
\* deleted from the catalog, and an id that is no number.
IndexIds == {IdStr(1), IdStr(2), IdStr(9), "abc"}
IndexScores == {40, 50}
IndexMatches == [id : IndexIds, score : IndexScores]
MatchLists == UNION {[1..n -> IndexMatches] : n \in 0..MaxHits}
ClientRaises == [outcome |-> "raise", matches |-> <<>>, has_vector |-> FALSE]
ClientAnswers ==
    {ClientRaises} \cup [outcome : {"ok"}, matches : MatchLists, has_vector : {FALSE}]
ClientFetches == [outcome : {"ok", "raise"}, matches : {<<>>}, has_vector : BOOLEAN]

InitMatch ==
    /\ artworks \in [1..MatchCatalog -> ArtworkAttrs]
    /\ nextArtId = MatchCatalog + 1
    /\ photos = <<[exhibition_id |-> 1, processed_status |-> COMPLETED]>>
    /\ detections = NewDetections(1, <<1>>, <<LowDraw>>)
    /\ provenance = <<>>
    /\ job_status = <<>>
    /\ tasks = <<>>
    /\ \E cfg \in InitConfigs :
          available = InitializePinecone(cfg.client_installed, cfg.api_key_set,
                                         cfg.connect)
    /\ numConfirms = 0
    /\ embedder = FreshProcess(0)
    /\ exhibitions = SeedExhibitions
    /\ resp = [kind |-> "none"]

ResolveMatches(detection_id, client) ==
    FirstRequest /\ GetMatches(detection_id, client)

CallVector(op, client) ==
    FirstRequest /\ VectorOp(op, client)

\* A further call of a vector service method after one has returned.
CallVectorAgain(op, client) ==
    resp.kind = "vector" /\ VectorOp(op, client)

NextMatch ==
    \/ \E client \in ClientAnswers : ResolveMatches(1, client)
    \/ ResolveMatches(2, ClientRaises)
    \/ \E op \in VectorOps : \E client \in ClientFetches : CallVector(op, client)
    \/ \E client \in ClientAnswers : CallVector("query", client)
    \/ \E op \in VectorOps : \E client \in ClientFetches : CallVectorAgain(op, client)

SpecMatch == InitMatch /\ [][NextMatch]_vars

\* ------------------------------------------------------------ SpecFallback
\* The metadata fallback of get-matches over every pair of detected artwork
\* and candidate.  Artwork 1 is the detected one, artwork 2 draws its
\* attributes freely, and the artworks from 3 on are copies of artwork 1, so
\* that more rows pass the filters than the query's limit.  Years and formats
\* include the values Python takes for false (0 and the empty string), which
\* the API accepts (schemas/artwork.py:7-8).
FallbackYears ==
    {None, Some(0), Some(5), Some(1889), Some(1895), Some(1905), Some(1920)}
FallbackFormats == {None, Some(""), Some("painting"), Some("sculpture")}
FallbackAttrs == [year : FallbackYears, format_type : FallbackFormats]

Embedded(attrs, has_embedding) ==
    [year |-> attrs.year, format_type |-> attrs.format_type,
     has_embedding |-> has_embedding]

FallbackAnswers ==
    {ClientRaises} \cup
    [outcome : {"ok"}, has_vector : {FALSE},
     matches : {<<>>, <<[id |-> IdStr(2), score |-> ScoreThreshold]>>,
                <<[id |-> IdStr(1), score |-> ScoreThreshold + 40],
                  [id |-> IdStr(3), score |-> ScoreThreshold + 20]>>}]

InitFallback ==
    /\ \E n \in 1..MaxFallbackCatalog : \E own, other \in FallbackAttrs :
       \E has_embedding \in BOOLEAN :
          artworks = [i \in 1..n |->
                        IF i = 2 THEN Embedded(other, FALSE)
                        ELSE Embedded(own, has_embedding)]
    /\ nextArtId = Len(artworks) + 1
    /\ photos = <<[exhibition_id |-> 1, processed_status |-> COMPLETED]>>
    /\ detections = NewDetections(1, <<1>>, <<LowDraw>>)
    /\ provenance = <<>>
    /\ job_status = <<>>
    /\ tasks = <<>>
    /\ \E connect \in {"ok", "raise"} :
          available = InitializePinecone(TRUE, TRUE, connect)
    /\ numConfirms = 0
    /\ embedder = FreshProcess(0)
    /\ exhibitions = SeedExhibitions
    /\ resp = [kind |-> "none"]

ResolveFallback(client) ==
    FirstRequest /\ GetMatches(1, client)

NextFallback == \E client \in FallbackAnswers : ResolveFallback(client)

SpecFallback == InitFallback /\ [][NextFallback]_vars

\* ------------------------------------------------------------ SpecProvenance
\* Confirmations and provenance histories over two exhibitions whose dates are
\* drawn freely.  The store is the one left by two pipeline runs, one photo in
\* each exhibition, each with one detection of artwork 1, and by one
\* confirmation of detection 1 for artwork 1.
ExhibitionDates == {None, Some(2021), Some(2023)}

InitProvenance ==
    /\ artworks = [a \in 1..ConfirmArt |-> PlainArtwork]
    /\ nextArtId = ConfirmArt + 1
    /\ exhibitions \in [Exhibitions -> [start_date : ExhibitionDates,
                                        end_date : ExhibitionDates]]
    /\ photos = <<[exhibition_id |-> 1, processed_status |-> COMPLETED],
                  [exhibition_id |-> 2, processed_status |-> COMPLETED]>>
    /\ detections = NewDetections(1, <<1>>, <<LowDraw>>) \o NewDetections(2, <<1>>, <<LowDraw>>)
    /\ provenance = UpsertProvenance(<<>>, 1, 1, 1)
    /\ job_status = <<>>
    /\ tasks = <<>>
    /\ available = FALSE
    /\ numConfirms = 0
    /\ embedder = FreshProcess(0)
    /\ resp = [kind |-> "none"]

NextProvenance ==
    \/ \E d \in 1..(Len(detections) + 1) : \E a \in 1..nextArtId :
       \E db_step \in DbSteps : ConfirmMatch(d, a, db_step)
    \/ \E a \in 1..nextArtId : GetProvenance(a)

SpecProvenance == InitProvenance /\ [][NextProvenance]_vars

\* ============================================================ claims
JobIds == DOMAIN job_status
NewJobIds == DOMAIN job_status' \ DOMAIN job_status

\* Rows of the detections table that belong to a photo.
DetectionsOf(photo_id) ==
    {d \in DOMAIN detections : detections[d].installation_photo_id = photo_id}

\* ------------------------------------------------------------ C1
StatusStep(old, new) ==
    \/ new = old
    \/ old = PENDING /\ new = PROCESSING
    \/ old = PROCESSING /\ new \in {COMPLETED, FAILED}

\* C1: in every step of every interleaving of submits, pipeline steps, polls
\* and catalog changes, a job's status stays as it is or moves PENDING ->
\* PROCESSING or PROCESSING -> COMPLETED | FAILED; a new job starts PENDING, no
\* job leaves the tracker, and so a terminal status never changes.
C1_StatusTransitions ==
    [][/\ \A j \in JobIds :
             /\ j \in DOMAIN job_status'
             /\ StatusStep(job_status[j].status, job_status'[j].status)
       /\ \A j \in NewJobIds : job_status'[j].status = PENDING]_vars

\* Two jobs have run interleaved with polls: one completed, one failed.
C1_Witness ==
    /\ resp.kind = "status"
    /\ \E j, k \in JobIds :
          job_status[j].status = COMPLETED /\ job_status[k].status = FAILED

\* ------------------------------------------------------------ C2
ProgressStep(old, new) ==
    \/ new = old
    \/ old = 0 /\ new = 10
    \/ old = 10 /\ new = 50
    \/ old = 50 /\ new = 80
    \/ old = 80 /\ new = 100

\* C2: in every step, on the success path and on every failure path, a job's
\* progress_percentage stays as it is or moves to the next of 0, 10, 50, 80,
\* 100; it starts at 0, never decreases and is never above 100.
C2_ProgressMonotone ==
    [][/\ \A j \in JobIds :
             /\ ProgressStep(job_status[j].progress_percentage,
                             job_status'[j].progress_percentage)
             /\ job_status'[j].progress_percentage >= job_status[j].progress_percentage
             /\ job_status'[j].progress_percentage <= 100
       /\ \A j \in NewJobIds : job_status'[j].progress_percentage = 0]_vars

\* A job failed after its last checkpoint before the commit, another completed.
C2_Witness ==
    \E j, k \in JobIds :
        /\ job_status[j].status = FAILED /\ job_status[j].progress_percentage = 80
        /\ job_status[k].status = COMPLETED /\ job_status[k].progress_percentage = 100

\* ------------------------------------------------------------ C3
\* C3: every detection has at most one ProvenanceRecord, and after a successful
\* confirm-match that one record is the record the response names and carries
\* the artwork id of that (most recent) confirmation.
C3_OneRecordPerDetection ==
    /\ \A d \in DOMAIN detections : Cardinality(ExistingRecords(provenance, d)) <= 1
    /\ (resp.kind = "confirm" /\ resp.status = 200) =>
          /\ ExistingRecords(provenance, resp.detection_id) = {resp.provenance_record_id}
          /\ provenance[resp.provenance_record_id].artwork_id = resp.confirmed_artwork_id

\* The second successful confirmation of a detection: the detection no longer
\* pointed to the artwork the pipeline gave it, and there is still one record.
C3_Witness ==
    /\ resp.kind = "confirm" /\ resp.status = 200
    /\ numConfirms = 2
    /\ Len(provenance) = 1
    /\ resp.original_artwork_id # tasks[1].detected_artworks[resp.detection_id]
    /\ resp.original_artwork_id # resp.confirmed_artwork_id

\* ------------------------------------------------------------ C4
ConfirmStep == numConfirms' # numConfirms

\* C4: a confirm-match step leaves the two tables in one of two conditions,
\* whatever the commit does: the detection's record names the confirmed artwork
\* and the detection points to it, or both tables are exactly as before.  A
\* call that answered 200 is in the first, a call whose commit failed in the
\* second.
C4_ConfirmAtomic ==
    [][ConfirmStep =>
          LET d == resp'.detection_id
              a == resp'.confirmed_artwork_id
              Neither == detections' = detections /\ provenance' = provenance
              Both == /\ d \in DOMAIN detections'
                      /\ detections'[d].artwork_id = a
                      /\ \E r \in ExistingRecords(provenance', d) :
                            provenance'[r].artwork_id = a
          IN /\ Neither \/ Both
             /\ resp'.status = 200 => Both
             /\ (resp'.status = 500 /\ resp'.detail = "commit") => Neither]_vars

\* A confirmation of an existing detection with a catalog artwork other than
\* its current one whose commit failed.
C4_Witness ==
    /\ resp.kind = "confirm" /\ resp.status = 500 /\ resp.detail = "commit"
    /\ detections[resp.detection_id].artwork_id # resp.confirmed_artwork_id

\* ------------------------------------------------------------ C5
\* C5: with the vector index unavailable, get-matches for an existing detection
\* answers 200 without calling the index client, and every candidate is a
\* heuristic one: tagged so, another catalog artwork than the detected one,
\* inside the format and year bounds of the fallback, with a score of at most
\* 0.95.
C5_UnavailableFallsBack ==
    (~available /\ resp.kind = "matches" /\ resp.detection_id \in DOMAIN detections) =>
        /\ resp.status = 200
        /\ ~resp.client_called
        /\ resp.match_count = Len(resp.similar_artworks)
        /\ \A i \in 1..Len(resp.similar_artworks) :
              LET c == resp.similar_artworks[i]
                  own == artworks[resp.detected_artwork_id]
              IN /\ c.source = "heuristic"
                 /\ c.artwork_id \in catalog
                 /\ c.artwork_id # resp.detected_artwork_id
                 /\ c.similarity_score >= 60 /\ c.similarity_score <= 95
                 /\ own.format_type # None =>
                       artworks[c.artwork_id].format_type = own.format_type
                 /\ own.year # None =>
                       /\ artworks[c.artwork_id].year # None
                       /\ Abs(artworks[c.artwork_id].year[1] - own.year[1]) <= 20

\* The index is unavailable, the detected artwork has an embedding (the vector
\* step would have been taken) and the fallback returned a candidate.
C5_Witness ==
    /\ ~available
    /\ resp.kind = "matches" /\ resp.status = 200
    /\ artworks[resp.detected_artwork_id].has_embedding
    /\ resp.match_count >= 1

\* ------------------------------------------------------------ C6
Sentinel(op) ==
    CASE op = "upsert" -> FALSE
      [] op = "query" -> <<>>
      [] op = "fetch" -> None
      [] op = "delete" -> FALSE

\* C6: no vector index operation raises; when the index is unavailable the
\* client is not called and the operation returns its failure sentinel, and
\* when the client raises the operation returns its failure sentinel.
C6_VectorOpsNeverRaise ==
    resp.kind = "vector" =>
        /\ ~resp.raised
        /\ ~available => (~resp.client_called /\ resp.ret = Sentinel(resp.op))
        /\ (available /\ resp.client = "raise") =>
              (resp.client_called /\ resp.ret = Sentinel(resp.op))

\* The index is available and its client raised during a delete.
C6_Witness ==
    /\ resp.kind = "vector" /\ resp.op = "delete"
    /\ available /\ resp.client = "raise"

\* ------------------------------------------------------------ C7
\* C7: the step that accepts a submission ends with a new job that is PENDING
\* at progress 0 with no error detail and no completion time, referencing the
\* one photo the step created (processed_status pending), with a response that
\* reports that job as PENDING and the task still queued; a queued task has not
\* written to its job.
C7_SubmitCreatesPendingJob ==
    [][/\ \A j \in NewJobIds :
             LET job == job_status'[j]
             IN /\ job.status = PENDING
                /\ job.progress_percentage = 0
                /\ job.error_details = None
                /\ job.completed_at = None
                /\ DOMAIN photos' \ DOMAIN photos = {job.installation_photo_id}
                /\ photos'[job.installation_photo_id].processed_status = PENDING
                /\ resp'.kind = "submit" /\ resp'.status = 200
                /\ resp'.job_id = j
                /\ resp'.installation_photo_id = job.installation_photo_id
                /\ resp'.job_state = PENDING
                /\ tasks'[j].pc = "queued"
       /\ \A j \in DOMAIN tasks' :
             tasks'[j].pc = "queued" =>
                /\ job_status'[j].status = PENDING
                /\ job_status'[j].progress_percentage = 0]_vars

\* A submission was just answered while an earlier job is being processed.
C7_Witness ==
    /\ resp.kind = "submit" /\ resp.status = 200
    /\ tasks[resp.job_id].pc = "queued"
    /\ \E k \in JobIds : job_status[k].status = PROCESSING

\* ------------------------------------------------------------ C8
EmptyCatalogFailure(j) == job_status[j].error_details = Some(NoCatalogError)

\* C8 as stated: a job that found the catalog empty is FAILED, its photo has no
\* detection and its photo's processed_status is failed.
C8_Original ==
    \A j \in JobIds :
        EmptyCatalogFailure(j) =>
            /\ job_status[j].status = FAILED
            /\ DetectionsOf(job_status[j].installation_photo_id) = {}
            /\ photos[job_status[j].installation_photo_id].processed_status = FAILED

\* C8 amended: the step that loads the candidates from an empty catalog takes
\* the job from PROCESSING to FAILED (by the failure of the empty catalog or of
\* the query itself) and creates no detection; when the query answered, the
\* error detail is the no-artworks message and the photo's processed_status is
\* failed or, if the best-effort update failed too, still pending.
C8_EmptyCatalogFails ==
    [][\A j \in DOMAIN tasks :
          (tasks[j].pc = "opened" /\ tasks'[j].pc # "opened" /\ catalog = {}) =>
             LET photo_id == job_status[j].installation_photo_id
             IN /\ job_status[j].status = PROCESSING
                /\ job_status'[j].status = FAILED
                /\ job_status'[j].error_details \in {Some(NoCatalogError), Some(DbError)}
                /\ detections' = detections
                /\ DetectionsOf(photo_id) = {}
                /\ photos'[photo_id].processed_status \in {FAILED, PENDING}
                /\ tasks'[j].pc = "done"]_vars

\* A job failed on the empty catalog and its photo was marked failed.
C8_Witness ==
    \E j \in JobIds :
        /\ EmptyCatalogFailure(j)
        /\ job_status[j].status = FAILED
        /\ photos[job_status[j].installation_photo_id].processed_status = FAILED

\* ------------------------------------------------------------ C9
\* C9: over a catalog of n >= 1 artworks, a run of which no step failed ends
\* COMPLETED with the photo completed and k detections of that photo, 1 <= k <=
\* min(3, min(n, 10)), of pairwise distinct catalog artworks, and the message
\* reports k; a run over such a catalog fails only by a failed database step.
C9_CompletedRun ==
    \A j \in JobIds :
        LET job == job_status[j]
            dets == DetectionsOf(job.installation_photo_id)
            k == Cardinality(dets)
            n == Cardinality(catalog)
        IN /\ (tasks[j].pc = "done" /\ n >= 1 /\ job.error_details = None) =>
                 job.status = COMPLETED
           /\ (job.status = FAILED /\ n >= 1) => job.error_details = Some(DbError)
           /\ job.status = COMPLETED =>
                 /\ n >= 1
                 /\ photos[job.installation_photo_id].processed_status = COMPLETED
                 /\ 1 <= k /\ k <= Min(3, Min(n, 10))
                 /\ \A d, d2 \in dets :
                       d # d2 => detections[d].artwork_id # detections[d2].artwork_id
                 /\ \A d \in dets : detections[d].artwork_id \in catalog
                 /\ job.message = <<"Successfully detected", k, "artworks">>
           /\ job.status # COMPLETED => dets = {}

\* A run over a catalog larger than the candidate limit detected three artworks.
C9_Witness ==
    \E j \in JobIds :
        /\ job_status[j].status = COMPLETED
        /\ Cardinality(DetectionsOf(job_status[j].installation_photo_id)) = 3
        /\ Cardinality(catalog) > 10

\* ------------------------------------------------------------ C10
\* C10: a successful confirm-match(D, A2) reports as original_artwork_id the
\* artwork D pointed to before the call and as confirmed_artwork_id the artwork
\* D points to after it, so the two differ exactly when the call changed D's
\* artwork_id.
C10_ResponseReportsReassignment ==
    [][(ConfirmStep /\ resp'.status = 200) =>
          LET d == resp'.detection_id
          IN /\ resp'.original_artwork_id = detections[d].artwork_id
             /\ resp'.confirmed_artwork_id = detections'[d].artwork_id
             /\ (resp'.original_artwork_id # resp'.confirmed_artwork_id)
                   <=> (detections'[d].artwork_id # detections[d].artwork_id)]_vars

\* A successful confirmation that reassigned its detection.
C10_Witness ==
    /\ resp.kind = "confirm" /\ resp.status = 200
    /\ resp.original_artwork_id # resp.confirmed_artwork_id
    /\ detections[resp.detection_id].artwork_id = resp.confirmed_artwork_id

\* ------------------------------------------------------------ C11
\* C11: a confirm-match call for a detection id that does not exist, or with a
\* confirmed artwork id that is not in the catalog, answers 404 and leaves the
\* detections and the provenance records exactly as they were.
C11_NotFoundChangesNothing ==
    [][(/\ ConfirmStep
        /\ \/ resp'.detection_id \notin DOMAIN detections
           \/ resp'.confirmed_artwork_id \notin catalog) =>
          /\ resp'.kind = "confirm" /\ resp'.status = 404
          /\ detections' = detections
          /\ provenance' = provenance]_vars

\* A detection that already has its record was confirmed with an artwork that
\* is not in the catalog.
C11_Witness ==
    /\ resp.kind = "confirm" /\ resp.status = 404
    /\ resp.detail = "Confirmed artwork not found"
    /\ ExistingRecords(provenance, resp.detection_id) # {}

\* ------------------------------------------------------------ C12
\* C12: a job whose run raised after it entered PROCESSING is FAILED with the
\* exception's message as error detail, and its photo's processed_status is
\* failed.
C12_FailedRunMarksPhoto ==
    \A j \in JobIds :
        job_status[j].status = FAILED =>
            /\ job_status[j].error_details \in {Some(NoCatalogError), Some(DbError)}
            /\ photos[job_status[j].installation_photo_id].processed_status = FAILED

\* ------------------------------------------------------------ C13
\* C13: the background task never ends by raising to whoever runs it.
C13_TaskNeverRaises ==
    \A j \in DOMAIN tasks : tasks[j].pc # "raised"

\* ------------------------------------------------------------ C14
\* C14: no step removes a job from the tracker and a job enters it only with
\* the submit response that returns its id; a status poll answers not-found
\* exactly when the polled id is not in the tracker, and otherwise reports the
\* job as it is, a FAILED job included.
C14_PollFindsEveryJob ==
    [][/\ JobIds \subseteq DOMAIN job_status'
       /\ \A j \in NewJobIds :
             resp'.kind = "submit" /\ resp'.status = 200 /\ resp'.job_id = j
       /\ (resp' # resp /\ resp'.kind = "status") =>
             /\ job_status' = job_status
             /\ resp'.status = 404 <=> resp'.job_id \notin JobIds
             /\ resp'.status = 200 <=> resp'.job_id \in JobIds
             /\ resp'.status = 200 => resp'.job = job_status[resp'.job_id]]_vars

\* A poll found a job that had failed.
C14_Witness ==
    /\ resp.kind = "status" /\ resp.status = 200
    /\ resp.job.status = FAILED
    /\ job_status[resp.job_id].status = FAILED

\* ------------------------------------------------------------ C15
\* C15: no operation changes what is_available() returns: the value set when
\* the service was constructed stays, and an unavailable service stays
\* unavailable also when the client would answer.
C15_AvailabilityFixed ==
    [][available' = available]_vars

\* A service whose initialization failed was asked to fetch while the client
\* would have answered: the call did not reach the client.
C15_Witness ==
    /\ ~available
    /\ resp.kind = "vector" /\ resp.op = "fetch"
    /\ resp.client = "ok" /\ ~resp.client_called

\* ------------------------------------------------------------ C16
\* C16: every detection the pipeline created has a confidence score within
\* [0.75, 0.98], hence within [0, 1], a bounding box of four integers with x in
\* [50, 400], y in [50, 300], width in [100, 300] and height in [100, 400], hence
\* none negative, and references the photo of a job and an artwork of the
\* catalog that job loaded and sampled.
C16_DetectionRanges ==
    \A d \in DOMAIN detections :
        LET det == detections[d]
            box == det.bounding_box
        IN /\ det.confidence_score >= 75 /\ det.confidence_score <= 98
           /\ det.confidence_score >= 0 /\ det.confidence_score <= 100
           /\ box.x \in Int /\ box.x >= 50 /\ box.x <= 400
           /\ box.y \in Int /\ box.y >= 50 /\ box.y <= 300
           /\ box.width \in Int /\ box.width >= 100 /\ box.width <= 300
           /\ box.height \in Int /\ box.height >= 100 /\ box.height <= 400
           /\ box.x >= 0 /\ box.y >= 0 /\ box.width >= 0 /\ box.height >= 0
           /\ \E j \in JobIds :
                 /\ job_status[j].installation_photo_id = det.installation_photo_id
                 /\ \E i \in 1..Len(tasks[j].detected_artworks) :
                       tasks[j].detected_artworks[i] = det.artwork_id
           /\ det.artwork_id \in catalog

\* A run stored two detections, one drawn at the upper end of every range and
\* one at the lower end.
C16_Witness ==
    \E d, d2 \in DOMAIN detections :
        /\ detections[d].confidence_score = 98
        /\ detections[d].bounding_box = [x |-> 400, y |-> 300, width |-> 300, height |-> 400]
        /\ detections[d2].confidence_score = 75
        /\ detections[d2].bounding_box = [x |-> 50, y |-> 50, width |-> 100, height |-> 100]

\* ------------------------------------------------------------ C17
\* C17: two calls of the embedding provider with the same seed key (an artwork
\* id, or the same title, year and format) return identical vectors.
C17_EmbeddingDeterministic ==
    [][(resp.kind = "embed" /\ resp'.kind = "embed" /\ resp'.key = resp.key) =>
          resp'.vector = resp.vector]_vars

\* ------------------------------------------------------------ C18
\* C18: when the vector step of get-matches raised, the request still answers
\* and the response holds only candidates of the metadata heuristic, none from
\* the index.
C18_RaisedVectorStepFallsBack ==
    (resp.kind = "matches" /\ resp.status = 200 /\ resp.vector_raised) =>
        \A i \in 1..Len(resp.similar_artworks) :
            resp.similar_artworks[i].source = "heuristic"

\* ------------------------------------------------------------ C19
\* C19: a status poll can run while a job stands at an intermediate progress
\* checkpoint of its run (50 after the session is opened, 80 after sampling),
\* so that a client can be answered 50 and later 80.
C19_PollsSeeCheckpoints ==
    \A j \in JobIds :
        (job_status[j].status = PROCESSING /\ job_status[j].progress_percentage \in {50, 80})
            => ENABLED GetStatus(j)

\* ------------------------------------------------------------ C20
\* C20: the detections of a run are stored all or nothing.  A FAILED job has
\* no detection row for its photo, a photo marked failed has none either, and
\* a COMPLETED job has one row for each artwork of its sample.
C20_DetectionsAllOrNothing ==
    /\ \A j \in JobIds :
          LET rows == DetectionsOf(job_status[j].installation_photo_id)
          IN /\ job_status[j].status = FAILED => rows = {}
             /\ job_status[j].status = COMPLETED =>
                   Cardinality(rows) = Len(tasks[j].detected_artworks)
             /\ job_status[j].status \in {PENDING, PROCESSING} => rows = {}
    /\ \A p \in DOMAIN photos :
          photos[p].processed_status = FAILED => DetectionsOf(p) = {}

\* A run that had added its detections to the session when its commit raised:
\* the job is FAILED at progress 80 and its photo has no detection row.
C20_Witness ==
    \E j \in JobIds :
        /\ job_status[j].status = FAILED
        /\ job_status[j].progress_percentage = 80
        /\ tasks[j].detected_artworks # <<>>
        /\ DetectionsOf(job_status[j].installation_photo_id) = {}

\* ------------------------------------------------------------ C21
\* C21: with the index available and the detected artwork embedded, every
\* candidate that get-matches took from the index is an artwork of the catalog
\* other than the detected one, with a score of at least 0.5, and there are at
\* most 10 of them.
C21_VectorCandidates ==
    (resp.kind = "matches" /\ resp.status = 200 /\ available
        /\ artworks[resp.detected_artwork_id].has_embedding) =>
        LET similar == resp.similar_artworks
            FromIndex == {i \in 1..Len(similar) : similar[i].source = "vector"}
        IN /\ Cardinality(FromIndex) <= 10
           /\ FromIndex # {} => Len(similar) <= 10
           /\ \A i \in FromIndex :
                 /\ similar[i].artwork_id \in catalog
                 /\ similar[i].artwork_id # resp.detected_artwork_id
                 /\ similar[i].similarity_score >= 50

\* The index answered with its ten nearest vectors, all of artworks of the
\* catalog other than the detected one: ten candidates from the index.
C21_Witness ==
    /\ resp.kind = "matches" /\ resp.status = 200
    /\ resp.match_count = 10
    /\ \A i \in 1..Len(resp.similar_artworks) :
          resp.similar_artworks[i].source = "vector"

\* ------------------------------------------------------------ C22
\* Candidates of the last get-matches response by where they came from.
FromIndex == {i \in 1..Len(resp.similar_artworks) :
                 resp.similar_artworks[i].source = "vector"}
FromFallback == {i \in 1..Len(resp.similar_artworks) :
                    resp.similar_artworks[i].source = "heuristic"}

\* The artworks the claim lets the fallback return, format_set and year_set
\* saying when the detected artwork has a format and a year.
Eligible(own_id, format_set, year_set) ==
    {a \in catalog :
        /\ a # own_id
        /\ format_set => artworks[a].format_type = artworks[own_id].format_type
        /\ year_set =>
              /\ artworks[a].year # None
              /\ Abs(artworks[a].year[1] - artworks[own_id].year[1]) <= 20}

FallbackAsClaimed(format_set, year_set) ==
    LET own_id == resp.detected_artwork_id
        similar == resp.similar_artworks
    IN /\ \A i \in FromFallback :
             similar[i].artwork_id \in Eligible(own_id, format_set, year_set)
       /\ Cardinality(FromFallback) <= 5
       /\ FromIndex = {} \/ FromFallback = {}
       /\ (FromIndex = {} /\ Eligible(own_id, format_set, year_set) # {}) =>
             FromFallback # {}

\* C22 as stated: the fallback filters on the format and on the year whenever
\* the detected artwork has a value for them.
C22_Original ==
    (resp.kind = "matches" /\ resp.status = 200) =>
        LET own == artworks[resp.detected_artwork_id]
        IN FallbackAsClaimed(own.format_type # None, own.year # None)

\* C22: every candidate of the metadata fallback is a catalog artwork other
\* than the detected one, of the same format_type when the detected artwork's
\* format_type is a non-empty string, and with a year within 20 of the
\* detected artwork's when that year is present and not 0; there are at most
\* 5 of them, and the fallback runs exactly when the vector step produced no
\* candidate.
C22_FallbackCandidates ==
    (resp.kind = "matches" /\ resp.status = 200) =>
        LET own == artworks[resp.detected_artwork_id]
        IN FallbackAsClaimed(own.format_type # None /\ own.format_type # Some(""),
                             own.year # None /\ own.year # Some(0))

\* The fallback ran over a catalog in which more than 5 artworks pass the
\* filters of a detected artwork that has a format and a year, and one
\* artwork does not pass them.
C22_Witness ==
    /\ resp.kind = "matches" /\ resp.status = 200
    /\ Cardinality(FromFallback) = 5
    /\ artworks[1].format_type = Some("painting") /\ artworks[1].year = Some(1889)
    /\ artworks[2].year = Some(1920)
    /\ Cardinality(Eligible(1, TRUE, TRUE)) > 5

\* ------------------------------------------------------------ C23
\* The score the claim gives a pair, in hundredths; both_years says when both
\* years count as present.
ClaimedScore(art, own, both_years) ==
    LET format == IF art.format_type = own.format_type THEN 20 ELSE 0
        year == IF both_years /\ Abs(art.year[1] - own.year[1]) <= 5 THEN 15
                ELSE IF both_years /\ Abs(art.year[1] - own.year[1]) <= 10 THEN 10
                ELSE 0
    IN Min(60 + format + year, 95)

\* The pair of the claim's example: a painting of 1889 detected, a painting of
\* 1895 as candidate.
ExamplePair(art, own) ==
    /\ own.year = Some(1889) /\ own.format_type = Some("painting")
    /\ art.year = Some(1895) /\ art.format_type = Some("painting")

\* C23 as stated: years count when they are not absent, and the example pair
\* scores 0.95.
C23_Original ==
    (resp.kind = "matches" /\ resp.status = 200) =>
        \A i \in FromFallback :
            LET art == artworks[resp.similar_artworks[i].artwork_id]
                own == artworks[resp.detected_artwork_id]
                score == resp.similar_artworks[i].similarity_score
            IN /\ score = ClaimedScore(art, own, art.year # None /\ own.year # None)
               /\ score >= 60 /\ score <= 95
               /\ ExamplePair(art, own) => score = 95

\* C23: the heuristic score of every fallback candidate is 0.6, plus 0.2 if
\* the two format_types are equal, plus 0.15 if both years are present and
\* not 0 and differ by at most 5, else plus 0.1 if they are present and not 0
\* and differ by at most 10; it is capped at 0.95 and lies in [0.6, 0.95].  A
\* painting of 1889 against a painting of 1895 scores 0.9.
C23_HeuristicScore ==
    (resp.kind = "matches" /\ resp.status = 200) =>
        \A i \in FromFallback :
            LET art == artworks[resp.similar_artworks[i].artwork_id]
                own == artworks[resp.detected_artwork_id]
                score == resp.similar_artworks[i].similarity_score
            IN /\ score = ClaimedScore(art, own,
                              /\ art.year # None /\ art.year # Some(0)
                              /\ own.year # None /\ own.year # Some(0))
               /\ score >= 60 /\ score <= 95
               /\ ExamplePair(art, own) => score = 90

\* The fallback scored the pair of the claim's example.
C23_Witness ==
    /\ resp.kind = "matches" /\ resp.status = 200
    /\ \E i \in FromFallback :
          /\ resp.similar_artworks[i].artwork_id = 2
          /\ ExamplePair(artworks[2], artworks[1])
          /\ resp.similar_artworks[i].similarity_score = 90

\* ------------------------------------------------------------ C24
\* C24: every job has exactly one background task; a step changes the tracker
\* entry of a job only if it is a step of that job's task, at most one task
\* steps at a time, and a submit adds one job under an id no job has.
C24_TasksWriteOwnJob ==
    [][/\ DOMAIN tasks = JobIds
       /\ DOMAIN tasks' = DOMAIN job_status'
       /\ \A j \in JobIds :
             tasks'[j] = tasks[j] => job_status'[j] = job_status[j]
       /\ Cardinality({j \in JobIds : tasks'[j] # tasks[j]}) <= 1
       /\ Cardinality(NewJobIds) <= 1
       /\ NewJobIds # {} => \A j \in JobIds : job_status'[j] = job_status[j]]_vars

\* Two jobs were in flight at once: one task has run to its end while the
\* other job is still waiting in the processing delay.
C24_Witness ==
    \E j, k \in JobIds :
        /\ j # k
        /\ tasks[j].pc = "done" /\ job_status[j].status = COMPLETED
        /\ tasks[k].pc = "sleeping" /\ job_status[k].status = PROCESSING
        /\ job_status[k].progress_percentage = 10

\* ------------------------------------------------------------ C25
\* C25: after every step, each job has a completed_at exactly if its status is
\* COMPLETED or FAILED, and the started_at of a job that existed before the
\* step is what it was.
C25_Timestamps ==
    [][/\ \A j \in DOMAIN job_status' :
             job_status'[j].completed_at # None <=>
                job_status'[j].status \in {COMPLETED, FAILED}
       /\ \A j \in JobIds : job_status'[j].started_at = job_status[j].started_at]_vars

\* One job ended on the success path and one on the failure path, both with a
\* completion time.
C25_Witness ==
    \E j, k \in JobIds :
        /\ job_status[j].status = COMPLETED /\ job_status[j].completed_at # None
        /\ job_status[k].status = FAILED /\ job_status[k].completed_at # None

\* ------------------------------------------------------------ C26
\* The years on the exhibitions of the provenance records of an artwork.
YearsOfArtwork(artwork_id) ==
    {y \in 2021..2023 :
        \E r \in DOMAIN provenance :
            /\ provenance[r].artwork_id = artwork_id
            /\ \/ exhibitions[provenance[r].exhibition_id].start_date = Some(y)
               \/ exhibitions[provenance[r].exhibition_id].end_date = Some(y)}

\* C26: the date range of a provenance history is absent when no exhibition
\* of the artwork's records has a start or an end year, the one year when the
\* least and the greatest of those years are equal, and "min-max" with
\* min < max otherwise.
C26_DateRange ==
    (resp.kind = "provenance" /\ resp.status = 200) =>
        LET years == YearsOfArtwork(resp.artwork_id)
        IN /\ years = {} => resp.date_range = None
           /\ years # {} =>
                 \E lo, hi \in years :
                    /\ \A y \in years : lo <= y /\ y <= hi
                    /\ lo = hi => resp.date_range = Some(<<lo>>)
                    /\ lo < hi => resp.date_range = Some(<<lo, "-", hi>>)

\* A history over two exhibitions, the later year being an end date only.
C26_Witness ==
    /\ resp.kind = "provenance" /\ resp.status = 200
    /\ resp.total_exhibitions = 2
    /\ resp.date_range = Some(<<2021, "-", 2023>>)
    /\ \A e \in Exhibitions : exhibitions[e].start_date # Some(2023)

\* ------------------------------------------------------------ C27
Terminal(j) == j \in DOMAIN job_status /\ job_status[j].status \in {COMPLETED, FAILED}

\* C27: every accepted job eventually reaches COMPLETED or FAILED when its
\* background task keeps being scheduled, whatever the catalog holds and
\* whichever database step fails.
C27_JobsTerminate ==
    \A j \in 1..MaxPhotos : (j \in DOMAIN job_status) ~> Terminal(j)

\* Two jobs ended, one by a session that never opened (the task raised after
\* it recorded the failure) and one by a committed run.
C27_Witness ==
    /\ \A j \in 1..MaxPhotos : Terminal(j)
    /\ \E j \in DOMAIN tasks : tasks[j].pc = "raised" /\ job_status[j].status = FAILED
    /\ \E j \in DOMAIN tasks : job_status[j].status = COMPLETED

\* ------------------------------------------------------------ C28
\* C28: while a job is PENDING or PROCESSING its photo's processed_status is
\* pending, no submitted photo ever holds the value processing, and whenever a job is
\* COMPLETED its photo's processed_status is completed, its progress is 100
\* and the detections it announces are stored for its photo.
C28_PhotoFollowsJob ==
    /\ \A p \in DOMAIN photos : photos[p].processed_status # PROCESSING
    /\ \A j \in DOMAIN job_status :
          LET job == job_status[j]
              photo_id == job.installation_photo_id
          IN /\ photo_id \in DOMAIN photos
             /\ job.status \in {PENDING, PROCESSING} =>
                   photos[photo_id].processed_status = PENDING
             /\ job.status = COMPLETED =>
                   /\ photos[photo_id].processed_status = COMPLETED
                   /\ job.progress_percentage = 100
                   /\ DetectionsOf(photo_id) # {}
                   /\ Cardinality(DetectionsOf(photo_id)) = job.message[2]

\* One job completed while another is in the middle of its run, past
\* progress 50.
C28_Witness ==
    /\ \E j \in DOMAIN job_status : job_status[j].status = COMPLETED
    /\ \E j \in DOMAIN job_status :
          /\ job_status[j].status = PROCESSING
          /\ job_status[j].progress_percentage >= 50

\* ------------------------------------------------------------ C29
\* A provenance record names the artwork its detection points to now and the
\* exhibition of its detection's installation photo.
RecordAgrees(record) ==
    /\ record.detection_id \in DOMAIN detections
    /\ record.artwork_id = detections[record.detection_id].artwork_id
    /\ record.exhibition_id =
          photos[detections[record.detection_id].installation_photo_id].exhibition_id

\* A step leaves the exhibition and the detection of every record it finds.
RecordKeysKept ==
    \A r \in DOMAIN provenance :
        /\ r \in DOMAIN provenance'
        /\ provenance'[r].exhibition_id = provenance[r].exhibition_id
        /\ provenance'[r].detection_id = provenance[r].detection_id

\* C29: every provenance record written by confirm-match agrees with its
\* detection (same artwork as the detection has now, exhibition of the
\* detection's photo), and an update of an existing record leaves its
\* exhibition_id and detection_id unchanged.
C29_RecordsAgree ==
    /\ [](\A r \in DOMAIN provenance : RecordAgrees(provenance[r]))
    /\ [][RecordKeysKept]_vars

\* A record of a photo of exhibition 2, updated by a second confirmation that
\* named another artwork than the first.
C29_Witness ==
    /\ numConfirms = 2
    /\ resp.kind = "confirm" /\ resp.status = 200
    /\ resp.original_artwork_id # resp.confirmed_artwork_id
    /\ Len(provenance) = 1
    /\ provenance[1].exhibition_id = 2
    /\ provenance[1].artwork_id = resp.confirmed_artwork_id
    /\ resp.original_artwork_id \in catalog

\* ------------------------------------------------------------ C30
\* The entries of the last provenance response that were read from detection d.
EntriesFrom(d) ==
    {i \in DOMAIN resp.provenance_entries : resp.provenance_entries[i].detection_id = d}

\* C30: a provenance history has as many entries, reported as
\* total_exhibitions, as there are provenance records naming the artwork, and
\* a confirmed detection contributes exactly one entry to the history of the
\* artwork it was last confirmed for and none to the history of any other
\* artwork, the one it was confirmed for before included.
C30_HistoryFollowsConfirmation ==
    (resp.kind = "provenance" /\ resp.status = 200) =>
        /\ resp.total_exhibitions = Len(resp.provenance_entries)
        /\ resp.total_exhibitions =
              Cardinality({r \in DOMAIN provenance :
                              provenance[r].artwork_id = resp.artwork_id})
        /\ \A r \in DOMAIN provenance :
              Cardinality(EntriesFrom(provenance[r].detection_id)) =
                 IF provenance[r].artwork_id = resp.artwork_id THEN 1 ELSE 0

\* Detection 1, confirmed for artwork 1 at the start, has been confirmed
\* again for artwork 2 and detection 2 for artwork 1: the history of
\* artwork 1 has the entry of detection 2 only.
C30_Witness ==
    /\ Len(provenance) = 2
    /\ provenance[1].detection_id = 1 /\ provenance[1].artwork_id = 2
    /\ provenance[2].detection_id = 2 /\ provenance[2].artwork_id = 1
    /\ resp.kind = "provenance" /\ resp.status = 200 /\ resp.artwork_id = 1
    /\ resp.total_exhibitions = 1
    /\ EntriesFrom(1) = {}

====
